---- MODULE Spec2Model ----
(***************************************************************************)
(* State-machine model of document-agent:                                  *)
(*   - TinyDBSessionService   (src/services/session_service.py)            *)
(*   - KnowledgeService       (src/services/knowledge_service.py)          *)
(*   - the maintenance endpoints clear_chat / clear_knowledge              *)
(*                            (src/flask/app.py)                           *)
(*   - the document tools     (src/tools/document_tools.py)                *)
(*   - the profile tool       (src/tools/github_tool.py)                   *)
(* A TinyDB table is a sequence of documents in insertion order.  Python   *)
(* dicts are sets of <<key, value>> pairs.  Python values whose type the   *)
(* code inspects (event content) are tagged records.                       *)
(***************************************************************************)
EXTENDS Integers, Sequences, FiniteSets, TLC

VARIABLES
    sessions_table,  \* TinyDB table "sessions": sequence of session documents
    session,         \* the Session object a caller holds in memory, or None
    knowledge,       \* TinyDB table "knowledge": sequence of summary documents
    resumes,         \* names of the files in the 'resumes' folder
    saved,           \* history: per file name, the last save_summary since a clear
    hist,            \* history: per session id, the creates and appends so far
    processed,       \* names of the files in the folder 'resumes/processed'
    tool_result,     \* what the last tool call returned and did, or None
    repos,           \* the repository list the profile API returns
    chat             \* per chat request: where it is, its queue, its stream

vars ==
    <<sessions_table, session, knowledge, resumes, saved, hist,
      processed, tool_result, repos, chat>>

(***************************************************************************)
(* Bounds and input domains                                                *)
(***************************************************************************)
MaxEvents == 2       \* longest event list a session is driven to

None == [kind |-> "None"]

Key(a, u, i) == [app_name |-> a, user_id |-> u, id |-> i]

UuidIds == {"uuid-1"}

\* The triples the callers use.  Three of them share the session id "s1".
SessionKeys ==
    { Key("document_app", "u1", "s1"),
      Key("other_app",    "u1", "s1"),
      Key("document_app", "u2", "s1"),
      Key("document_app", "u1", "uuid-1") }

\* A Python dict: the set of its <<key, value>> items, tagged as a dict.
Dict(m) == [kind |-> "dict", map |-> m]

EmptyDict == Dict({})

\* Session state values the callers pass.
StateVals == { EmptyDict, Dict({<<"step", "1">>}) }

\* session_id argument left out (None) or empty: both are falsy in Python.
NoSessionId == ""

\* Event content as the code sees it: a dict, an object with model_dump(),
\* an object with a .text attribute, or anything else (an int, None).
ModelContent(m) == [kind |-> "model", dump |-> m]
TextContent(t)  == [kind |-> "text_attr", text |-> t]
IntContent(n)   == [kind |-> "int", int |-> n]
NoneContent     == [kind |-> "none"]

Ev(i, a, c, t) == [id |-> i, author |-> a, content |-> c, timestamp |-> t]

\* Events the conversation runtime hands to append_event.
RuntimeEvents ==
    { Ev("e1", "user", Dict({<<"text", "hi">>}), 1),
      Ev("e2", "document_agent", Dict({<<"text", "hello!">>}), 2) }

(***************************************************************************)
(* Python / TinyDB primitives                                              *)
(***************************************************************************)
\* str(x) for the content values that are not mappings
Str(c) ==
    CASE c.kind = "int"       -> ToString(c.int)
      [] c.kind = "none"      -> "None"
      [] c.kind = "text_attr" -> "<object>"
      [] c.kind = "model"     -> "<model>"
      [] OTHER                -> "<dict>"

\* Table.search(cond): the matching documents, in table order
Search(table, cond(_)) == SelectSeq(table, cond)

\* Table.get(cond): the first matching document, or None
Get(table, cond(_)) ==
    IF Search(table, cond) = <<>> THEN None ELSE Head(Search(table, cond))

\* dict.update(fields) on a document
Merge(doc, fields) ==
    [f \in DOMAIN doc \cup DOMAIN fields |->
        IF f \in DOMAIN fields THEN fields[f] ELSE doc[f]]

\* Table.update(fields, cond): every matching document is updated in place
Update(table, fields, cond(_)) ==
    [i \in DOMAIN table |->
        IF cond(table[i]) THEN Merge(table[i], fields) ELSE table[i]]

\* Table.upsert(doc, cond): update the matching documents, insert when none
Upsert(table, doc, cond(_)) ==
    IF \E i \in DOMAIN table : cond(table[i])
        THEN Update(table, doc, cond)
        ELSE Append(table, doc)

\* Table.remove(cond)
Remove(table, cond(_)) == SelectSeq(table, LAMBDA d : ~cond(d))

\* faulty variant: only the oldest document is removed
Truncate_oldest_only(table) == IF table = <<>> THEN <<>> ELSE Tail(table)

\* Table.truncate()
Truncate(table) == <<>>

(***************************************************************************)
(* session_service.py                                                      *)
(***************************************************************************)
\* Python truthiness of an Optional[dict] argument
Falsy(x) == x = None \/ x = EmptyDict

event_to_dict(event) ==
    [id        |-> event.id,
     author    |-> event.author,
     content   |-> CASE event.content.kind = "dict"      -> event.content
                     [] event.content.kind = "model"     -> Dict(event.content.dump)
                     [] event.content.kind = "text_attr" ->
                            Dict({<<"text", event.content.text>>})
                     [] OTHER -> Dict({<<"text", Str(event.content)>>}),
     timestamp |-> event.timestamp]

\* faulty variant: the stored content is stringified even when it is a dict
dict_to_event_always_str(data) ==
    [id        |-> data.id,
     author    |-> data.author,
     content   |-> Dict({<<"text", Str(data.content)>>}),
     timestamp |-> data.timestamp]

dict_to_event(data) ==
    [id        |-> data.id,
     author    |-> data.author,
     content   |-> IF data.content.kind = "dict"
                       THEN data.content
                       ELSE Dict({<<"text", Str(data.content)>>}),
     timestamp |-> data.timestamp]

MapSeq(f(_), s) == [i \in DOMAIN s |-> f(s[i])]

Session(i, a, u, st, evs) ==
    [id |-> i, app_name |-> a, user_id |-> u, state |-> st, events |-> evs]

KeyOf(s) == Key(s.app_name, s.user_id, s.id)

\* the three-field query of get_session / delete_session
MatchTriple(k, d) ==
    d.app_name = k.app_name /\ d.user_id = k.user_id /\ d.id = k.id

\* the query  SessionQuery.id == session_id  of create_session / append_event
MatchId(sid, d) == d.id = sid

\* uuid.uuid4(): an identifier nothing else uses
FreshUuids ==
    { u \in UuidIds :
        /\ \A i \in DOMAIN sessions_table : sessions_table[i].id # u
        /\ (session = None \/ session.id # u) }

\* the Session object create_session builds and returns
new_session(app_name, user_id, sid, state) ==
    Session(sid, app_name, user_id,
            IF Falsy(state) THEN EmptyDict ELSE state, <<>>)

\* faulty variant: a stored id keeps its events (only owner and state are updated)
create_session_table_keeps_events(table, app_name, user_id, sid, state) ==
    Upsert(table,
           [id |-> sid, app_name |-> app_name, user_id |-> user_id,
            state |-> IF state = None THEN Dict({}) ELSE state,
            events |-> IF \E i \in DOMAIN table : table[i].id = sid
                          THEN (CHOOSE d \in {table[i] : i \in DOMAIN table} :
                                    d.id = sid).events
                          ELSE <<>>],
           LAMBDA d : d.id = sid)

\* faulty variant: insert instead of upsert
create_session_table_insert(table, app_name, user_id, sid, state) ==
    Append(table,
           [id |-> sid, app_name |-> app_name, user_id |-> user_id,
            state |-> IF state = None THEN Dict({}) ELSE state,
            events |-> <<>>])

\* the table after create_session's upsert
create_session_table(table, app_name, user_id, sid, state) ==
    Upsert(table,
           [id |-> sid, app_name |-> app_name, user_id |-> user_id,
            state |-> new_session(app_name, user_id, sid, state).state,
            events |-> <<>>],
           LAMBDA d : MatchId(sid, d))

\* faulty variant: the record is looked up by its session id alone
get_session_result_by_id(table, k) ==
    LET result == Search(table, LAMBDA d : d.id = k.id)
    IN  IF result = <<>>
            THEN None
            ELSE Session(result[1].id, result[1].app_name, result[1].user_id,
                         result[1].state,
                         MapSeq(dict_to_event, result[1].events))

\* the value get_session returns for a table
get_session_result(table, k) ==
    LET result == Search(table, LAMBDA d : MatchTriple(k, d))
    IN  IF result = <<>>
            THEN None
            ELSE Session(result[1].id, result[1].app_name, result[1].user_id,
                         result[1].state,
                         MapSeq(dict_to_event, result[1].events))

\* faulty variant: the new event is put in front of the stored ones
append_event_table_prepend(table, s, event) ==
    LET current_record == Get(table, LAMBDA d : d.id = s.id)
    IN  IF current_record # None
            THEN Update(table,
                        [events |-> <<event_to_dict(event)>> \o
                                        current_record.events,
                         state  |-> s.state],
                        LAMBDA d : d.id = s.id)
            ELSE table

\* faulty variant: a session that is not stored is stored again
append_event_table_recreates(table, s, event) ==
    Upsert(table,
           [id |-> s.id, app_name |-> s.app_name, user_id |-> s.user_id,
            state |-> s.state,
            events |-> MapSeq(event_to_dict, Append(s.events, event))],
           LAMBDA d : d.id = s.id)

\* the table after append_event(s, event)
append_event_table(table, s, event) ==
    LET current_record == Get(table, LAMBDA d : MatchId(s.id, d))
    IN  IF current_record # None
            THEN Update(table,
                        [events |-> Append(current_record.events,
                                           event_to_dict(event)),
                         state  |-> s.state],
                        LAMBDA d : MatchId(s.id, d))
            ELSE table

\* faulty variant: every record with the session id is removed
delete_session_table_by_id(table, k) == Remove(table, LAMBDA d : d.id = k.id)

\* the table after delete_session
delete_session_table(table, k) == Remove(table, LAMBDA d : MatchTriple(k, d))

\* faulty variant: the headers carry the rehydrated events
list_sessions_result_with_events(table, app_name, user_id) ==
    MapSeq(LAMBDA d : Session(d.id, d.app_name, d.user_id, d.state,
                              MapSeq(dict_to_event, d.events)),
           Search(table, LAMBDA d : d.app_name = app_name /\ d.user_id = user_id))

\* the value list_sessions returns
list_sessions_result(table, app_name, user_id) ==
    MapSeq(LAMBDA d : Session(d.id, d.app_name, d.user_id, d.state, <<>>),
           Search(table, LAMBDA d : d.app_name = app_name /\ d.user_id = user_id))

(***************************************************************************)
(* History variable.  For each session id: the triple of the last          *)
(* create_session with that id (None when there was none since the last    *)
(* delete or clear), the events passed to append_event for that id since   *)
(* that create (since that delete or clear when the owner is None), in     *)
(* call order, the state argument of the create or the session state of    *)
(* the last of those append calls, and whether every one of those calls    *)
(* was made on a Session object of that same triple.                       *)
(***************************************************************************)
SessionIds == { k.id : k \in SessionKeys } \cup UuidIds

NoHist == [owner |-> None, events |-> <<>>, state |-> None, own |-> TRUE]

hist_create(k, st) ==
    [hist EXCEPT ![k.id] =
        [owner |-> k, events |-> <<>>, state |-> st, own |-> TRUE]]

hist_append(s, event) ==
    IF hist[s.id].owner = None
        THEN [hist EXCEPT ![s.id].events = Append(@, event)]
        ELSE [hist EXCEPT ![s.id] =
                [owner  |-> @.owner,
                 events |-> Append(@.events, event),
                 state  |-> s.state,
                 own    |-> @.own /\ KeyOf(s) = @.owner]]

hist_delete(k) ==
    IF hist[k.id].owner = k THEN [hist EXCEPT ![k.id] = NoHist] ELSE hist

(***************************************************************************)
(* Actions of the session store                                            *)
(***************************************************************************)
\* create_session once the session id is settled; the caller keeps the
\* returned Session object (keep) or drops it, as chat() does.
create_session_as(app_name, user_id, sid, state, keep) ==
    /\ hist' = hist_create(Key(app_name, user_id, sid), state)
    /\ session' = IF keep THEN new_session(app_name, user_id, sid, state)
                          ELSE session
    /\ sessions_table' =
          create_session_table(sessions_table, app_name, user_id, sid, state)
    /\ UNCHANGED <<knowledge, resumes, saved,
                   processed, tool_result, repos, chat>>

create_session(app_name, user_id, session_id, state, keep) ==
    IF session_id = NoSessionId
        THEN \E u \in FreshUuids :
                create_session_as(app_name, user_id, u, state, keep)
        ELSE create_session_as(app_name, user_id, session_id, state, keep)

get_session(app_name, user_id, session_id) ==
    /\ session' = get_session_result(sessions_table,
                                     Key(app_name, user_id, session_id))
    /\ UNCHANGED <<sessions_table, knowledge, resumes, saved, hist,
                   processed, tool_result, repos, chat>>

append_event(event) ==
    /\ session # None
    /\ Len(session.events) < MaxEvents
    /\ \A i \in DOMAIN sessions_table :
          sessions_table[i].id = session.id
              => Len(sessions_table[i].events) < MaxEvents
    /\ session' = [session EXCEPT !.events = Append(@, event)]
    /\ sessions_table' = append_event_table(sessions_table, session, event)
    /\ hist' = hist_append(session, event)
    /\ UNCHANGED <<knowledge, resumes, saved,
                   processed, tool_result, repos, chat>>

delete_session(app_name, user_id, session_id) ==
    /\ sessions_table' =
          delete_session_table(sessions_table,
                               Key(app_name, user_id, session_id))
    /\ hist' = hist_delete(Key(app_name, user_id, session_id))
    /\ UNCHANGED <<session, knowledge, resumes, saved,
                   processed, tool_result, repos, chat>>

\* list_sessions only reads; its value is list_sessions_result
list_sessions(app_name, user_id) ==
    /\ UNCHANGED vars

\* faulty variant: the Session object writes its state through to the store
set_state_write_through(st) ==
    /\ session # None
    /\ session' = [session EXCEPT !.state = st]
    /\ sessions_table' = Update(sessions_table, [state |-> st],
                                LAMBDA d : MatchTriple(KeyOf(session), d))
    /\ UNCHANGED <<knowledge, resumes, saved, hist,
                   processed, tool_result, repos, chat>>

\* the caller changes the state of the Session object it holds
set_state(st) ==
    /\ session # None
    /\ session' = [session EXCEPT !.state = st]
    /\ UNCHANGED <<sessions_table, knowledge, resumes, saved, hist,
                   processed, tool_result, repos, chat>>

\* an event the caller makes up and never passes to append_event
LocalEvent == Ev("x1", "user", Dict({<<"text", "draft">>}), 9)

\* the caller appends to the event list of the Session object it holds
set_events(event) ==
    /\ session # None
    /\ Len(session.events) < MaxEvents
    /\ session' = [session EXCEPT !.events = Append(@, event)]
    /\ UNCHANGED <<sessions_table, knowledge, resumes, saved, hist,
                   processed, tool_result, repos, chat>>

clear_chat ==
    /\ sessions_table' = Truncate(sessions_table)
    /\ hist' = [i \in SessionIds |-> NoHist]
    /\ UNCHANGED <<session, knowledge, resumes, saved,
                   processed, tool_result, repos, chat>>

\* events a caller can pass to append_event: fresh ones from the runtime,
\* or ones it read back with get_session
ReadBackEvents ==
    IF session = None THEN {}
    ELSE { session.events[i] : i \in DOMAIN session.events }

EventInputs == RuntimeEvents \cup ReadBackEvents

\* triples whose session id the caller chose itself
ChosenKeys == { k \in SessionKeys : k.id \notin UuidIds }

CreateSession ==
    \E k \in ChosenKeys, st \in {None} \cup StateVals, keep \in BOOLEAN :
        create_session(k.app_name, k.user_id, k.id, st, keep)

CreateSessionNoId ==
    \E st \in {None} \cup StateVals, keep \in BOOLEAN :
        create_session("document_app", "u1", NoSessionId, st, keep)

GetSession ==
    \E k \in SessionKeys : get_session(k.app_name, k.user_id, k.id)

AppendEvent == \E e \in EventInputs : append_event(e)

DeleteSession ==
    \E k \in SessionKeys : delete_session(k.app_name, k.user_id, k.id)

ListSessions ==
    \E k \in SessionKeys : list_sessions(k.app_name, k.user_id)

SetState == \E st \in StateVals : set_state(st)

ClearChat == clear_chat

(***************************************************************************)
(* knowledge_service.py                                                    *)
(***************************************************************************)
FileNames == {"resume.pdf", "photo.png", "cv.pdf"}
Summaries == {"Senior engineer, 5 years", "A portrait"}
SourceTypes == {"Resume (PDF)", "Image"}

MatchFile(file_name, d) == d.file_name = file_name

\* faulty variant: the table is rewritten with the new document alone
save_summary_table_alone(table, file_name, summary, source_type) ==
    <<[file_name |-> file_name, summary |-> summary, type |-> source_type]>>

\* faulty variant: insert instead of upsert
save_summary_table_insert(table, file_name, summary, source_type) ==
    Append(table,
           [file_name |-> file_name, summary |-> summary, type |-> source_type])

\* faulty variant: a stored file name keeps its first summary
save_summary_table_first_wins(table, file_name, summary, source_type) ==
    IF \E i \in DOMAIN table : table[i].file_name = file_name
        THEN table
        ELSE Append(table,
                    [file_name |-> file_name, summary |-> summary,
                     type |-> source_type])

\* the table after save_summary's upsert
save_summary_table(table, file_name, summary, source_type) ==
    Upsert(table,
           [file_name |-> file_name, summary |-> summary, type |-> source_type],
           LAMBDA d : MatchFile(file_name, d))

has_summary(file_name) ==
    Len(Search(knowledge, LAMBDA d : MatchFile(file_name, d))) > 0

get_summary(file_name) == Get(knowledge, LAMBDA d : MatchFile(file_name, d))

NoKnowledgeMessage ==
    <<"No knowledge has been stored yet. Please run the processing tool.">>

\* faulty variant: the summary line is left out
DocBlock_no_summary(doc) ==
    << "--- START OF DOC: ", doc.file_name, " ---\n",
       "TYPE: ", doc.type, "\n",
       "--- END OF DOC: ", doc.file_name, " ---\n\n" >>

\* the four lines get_all_summaries adds for one document; a Python string
\* is the sequence of the pieces it was concatenated from
DocBlock(doc) ==
    << "--- START OF DOC: ", doc.file_name, " ---\n",
       "TYPE: ", doc.type, "\n",
       "SUMMARY: ", doc.summary, "\n",
       "--- END OF DOC: ", doc.file_name, " ---\n\n" >>

RECURSIVE ConcatBlocks(_)
ConcatBlocks(docs) ==
    IF docs = <<>> THEN <<>>
    ELSE DocBlock(Head(docs)) \o ConcatBlocks(Tail(docs))

get_all_summaries_result(table) ==
    IF table = <<>>
        THEN NoKnowledgeMessage
        ELSE <<"Here is the current knowledge base:\n\n">> \o ConcatBlocks(table)

(***************************************************************************)
(* Actions of the knowledge store                                          *)
(***************************************************************************)
save_summary(file_name, summary, source_type) ==
    /\ knowledge' = save_summary_table(knowledge, file_name, summary, source_type)
    /\ saved' = [saved EXCEPT ![file_name] =
                    [kind |-> "saved", summary |-> summary,
                     type |-> source_type, again |-> (@ # None)]]
    /\ UNCHANGED <<sessions_table, session, resumes, hist,
                   processed, repos, chat>>
    /\ tool_result' = None

\* get_all_summaries only reads the table; its value is
\* get_all_summaries_result(knowledge)
get_all_summaries == UNCHANGED vars

\* upload_resume stores an allowed file under a generated name (uuid4: a
\* name no file has had)
upload_resume(gen_name) ==
    /\ gen_name \notin resumes \cup processed
    /\ resumes' = resumes \cup {gen_name}
    /\ UNCHANGED <<sessions_table, session, knowledge, saved, hist,
                   processed, repos, chat>>
    /\ tool_result' = None

\* the entry of the resumes folder that is the 'processed' directory
ProcessedDir == "processed"

\* clear_knowledge truncates the table, then calls os.remove on every entry
\* of the resumes folder; an entry that cannot be removed (a locked file, or
\* the 'processed' directory, which os.remove refuses) is left
clear_knowledge(locked) ==
    /\ knowledge' = Truncate(knowledge)
    /\ resumes' = resumes \cap (locked \cup {ProcessedDir})
    /\ saved' = [f \in FileNames |-> None]
    /\ UNCHANGED <<sessions_table, session, hist,
                   processed, repos, chat>>
    /\ tool_result' = None

SaveSummary ==
    \E f \in FileNames, sm \in Summaries, t \in SourceTypes :
        save_summary(f, sm, t)

GetAllSummaries == get_all_summaries

UploadResume == \E f \in FileNames : upload_resume(f)

ClearKnowledge == \E locked \in SUBSET FileNames : clear_knowledge(locked)

(***************************************************************************)
(* tools/document_tools.py                                                 *)
(***************************************************************************)
\* the files that are uploaded into the resumes folder
ToolFiles == {"resume.pdf", "photo.png", "notes.txt"}

\* the end of file_name.lower() that the tools test
LowerExt(file_name) ==
    CASE file_name = "resume.pdf" -> ".pdf"
      [] file_name = "cv.pdf"     -> ".pdf"
      [] file_name = "photo.png"  -> ".png"
      [] file_name = "notes.txt"  -> ".txt"
      [] OTHER                    -> ""

\* source_type as the tools choose it; "unknown" for an unsupported file
source_type_of(file_name) ==
    IF LowerExt(file_name) = ".pdf" THEN "Resume (PDF)"
    ELSE IF LowerExt(file_name) \in {".jpg", ".jpeg", ".png"} THEN "Image"
    ELSE "unknown"

SupportedFiles == { f \in ToolFiles : source_type_of(f) # "unknown" }

\* response.text of the summarization model, one answer per prompt
ResponseText(source_type) ==
    IF source_type = "Resume (PDF)" THEN "Senior engineer, 5 years"
                                    ELSE "A portrait"

\* How the external calls made for one file end: genai.upload_file and
\* generate_content_async succeed or raise, genai.delete_file succeeds or
\* raises, and the move ends "moved", "mkdir_failed" (os.makedirs raised) or
\* "replace_failed" (the directory is there, os.replace raised).
Outcome(up, gen, del, mv) ==
    [upload |-> up, generate |-> gen, delete |-> del, move |-> mv]

AllOk == Outcome(TRUE, TRUE, TRUE, "moved")

ToolOutcomes ==
    { AllOk,
      Outcome(FALSE, TRUE, TRUE, "moved"),
      Outcome(TRUE, FALSE, TRUE, "moved"),
      Outcome(TRUE, TRUE, FALSE, "moved"),
      Outcome(TRUE, TRUE, TRUE, "replace_failed"),
      Outcome(TRUE, TRUE, FALSE, "mkdir_failed") }

\* faulty variant: no file counts as already processed
has_summary_in_never(table, file_name) == FALSE

\* knowledge_service.has_summary on the table as it is inside a tool run
has_summary_in(table, file_name) ==
    Len(Search(table, LAMBDA d : MatchFile(file_name, d))) > 0

\* the stores and folders while a tool runs; log lists the calls made, in
\* order; raised says an exception left the per-file steps
Run(k, r, p) ==
    [knowledge |-> k, resumes |-> r, processed |-> p,
     log |-> <<>>, raised |-> FALSE, count |-> 0, text |-> <<>>]

\* faulty variant: a failed move is not caught
summarize_and_file_move_raises(st, file_name, source_type, o) ==
    IF ~o.upload \/ ~o.generate
        THEN [st EXCEPT !.log = Append(@, <<"upload_file", file_name>>),
                        !.raised = TRUE]
    ELSE
        LET stored == [st EXCEPT
                !.knowledge = save_summary_table(st.knowledge, file_name,
                                  ResponseText(source_type), source_type),
                !.log = @ \o << <<"upload_file", file_name>>,
                                <<"generate_content", file_name>>,
                                <<"save_summary", file_name>> >>]
        IN  IF o.move = "moved"
                THEN [stored EXCEPT
                        !.resumes = (@ \ {file_name}) \cup {ProcessedDir},
                        !.processed = @ \cup {file_name},
                        !.log = Append(@, <<"replace", file_name>>)]
                ELSE [stored EXCEPT
                        !.log = Append(@, <<"replace raised", file_name>>),
                        !.raised = TRUE]

\* faulty variant: the file is moved before it is uploaded
summarize_and_file_moves_first(st, file_name, source_type, o) ==
    LET moved == [st EXCEPT
                    !.resumes = (@ \ {file_name}) \cup {ProcessedDir},
                    !.processed = @ \cup {file_name},
                    !.log = @ \o << <<"replace", file_name>>,
                                    <<"upload_file", file_name>>,
                                    <<"generate_content", file_name>> >>]
    IN  IF ~o.upload \/ ~o.generate
            THEN [moved EXCEPT !.raised = TRUE]
            ELSE [moved EXCEPT
                    !.knowledge = save_summary_table(st.knowledge, file_name,
                                      ResponseText(source_type), source_type),
                    !.log = Append(@, <<"save_summary", file_name>>)]

\* steps 1 to 4 and the move, for a supported file without a summary:
\* upload, model call, save_summary, delete of the uploaded artifact
\* (failure ignored), move into 'processed' (failure ignored)
summarize_and_file(st, file_name, source_type, o) ==
    IF ~o.upload
        THEN [st EXCEPT !.log = Append(@, <<"upload_file", file_name>>),
                        !.raised = TRUE]
    ELSE IF ~o.generate
        THEN [st EXCEPT !.log = @ \o << <<"upload_file", file_name>>,
                                        <<"generate_content", file_name>> >>,
                        !.raised = TRUE]
    ELSE
        LET stored == [st EXCEPT
                !.knowledge = save_summary_table(st.knowledge, file_name,
                                  ResponseText(source_type), source_type),
                !.log = @ \o << <<"upload_file", file_name>>,
                                <<"generate_content", file_name>>,
                                <<"save_summary", file_name>>,
                                <<IF o.delete THEN "delete_file"
                                              ELSE "delete_file raised",
                                  file_name>> >>]
        IN  CASE o.move = "moved" ->
                    [stored EXCEPT
                        !.resumes = (@ \ {file_name}) \cup {ProcessedDir},
                        !.processed = @ \cup {file_name},
                        !.log = Append(@, <<"replace", file_name>>)]
              [] o.move = "replace_failed" ->
                    [stored EXCEPT
                        !.resumes = @ \cup {ProcessedDir},
                        !.log = Append(@, <<"replace raised", file_name>>)]
              [] OTHER ->
                    [stored EXCEPT
                        !.log = Append(@, <<"makedirs raised", file_name>>)]

\* the for loop of process_static_resumes_tool over the listed entries
RECURSIVE static_loop(_, _, _)
static_loop(st, files, outcome) ==
    IF files = <<>> \/ st.raised THEN st
    ELSE
        LET file_name   == Head(files)
            source_type == source_type_of(file_name)
        IN  IF source_type = "unknown"
                THEN static_loop(st, Tail(files), outcome)
            ELSE IF has_summary_in(st.knowledge, file_name)
                THEN static_loop(st, Tail(files), outcome)
            ELSE
                LET done == summarize_and_file(st, file_name, source_type,
                                               outcome[file_name])
                IN  static_loop(IF done.raised THEN done
                                ELSE [done EXCEPT !.count = @ + 1],
                                Tail(files), outcome)

\* the value process_static_resumes_tool returns, as the pieces of the text
static_text(files, end) ==
    IF files = <<>>
        THEN <<"No files found in '", "resumes", "' to process.">>
    ELSE IF end.raised
        THEN <<"An error occurred: ", "<exception>">>
    ELSE IF end.count = 0
        THEN <<"No new supported files (PDF/Image) found in the 'resumes' folder.">>
    ELSE <<"Successfully processed and saved summaries for ",
           ToString(end.count), " files.">>

\* the whole run of process_static_resumes_tool on a listing
static_run(k, r, p, files, outcome) ==
    LET end == static_loop(Run(k, r, p), files, outcome)
    IN  [end EXCEPT !.text = static_text(files, end)]

\* the whole run of a single-file tool on the file file_name of the resumes
\* folder
single_run(k, r, p, file_name, o) ==
    LET st == Run(k, r, p)
    IN  IF file_name \notin r \/ file_name = ProcessedDir
            THEN [st EXCEPT !.text =
                     <<"Error: file '", file_name, "' does not exist.">>]
        ELSE IF has_summary_in(k, file_name)
            THEN [st EXCEPT !.text =
                     <<"Skipped: '", file_name, "' already processed.">>]
        ELSE IF source_type_of(file_name) = "unknown"
            THEN [st EXCEPT !.text =
                     <<"Skipped: unsupported file type for '", file_name, "'.">>]
        ELSE
            LET done == summarize_and_file(st, file_name,
                                           source_type_of(file_name), o)
            IN  IF done.raised
                    THEN [done EXCEPT !.text =
                             <<"Error processing '", file_name, "': ",
                               "<exception>">>]
                    ELSE [done EXCEPT !.text = <<"Processed: ", file_name>>]

\* the file names a log has a given call for
Called(log, call) == { log[i][2] : i \in { j \in DOMAIN log : log[j][1] = call } }

\* os.listdir: the entries in any order
Listings(entries) ==
    { files \in [1..Cardinality(entries) -> entries] :
        \A i, j \in DOMAIN files : files[i] = files[j] => i = j }

\* a tool returned text
Returned(tool, end) ==
    [tool |-> tool, kind |-> "text", text |-> end.text, log |-> end.log]

\* a tool left through an exception
Raised(tool) ==
    [tool |-> tool, kind |-> "exception", text |-> <<>>, log |-> <<>>]

\* the stores and folders after a tool run, with the history of saves
finish_run(tool, end) ==
    /\ knowledge' = end.knowledge
    /\ resumes' = end.resumes
    /\ processed' = end.processed
    /\ saved' = [f \in FileNames |->
                    IF f \in Called(end.log, "save_summary")
                        THEN [kind |-> "saved",
                              summary |-> ResponseText(source_type_of(f)),
                              type |-> source_type_of(f),
                              again |-> (saved[f] # None)]
                        ELSE saved[f]]
    /\ tool_result' = Returned(tool, end)
    /\ UNCHANGED <<sessions_table, session, hist, repos, chat>>

process_static_resumes_tool(files, outcome) ==
    /\ files \in Listings(resumes)
    /\ finish_run("process_static_resumes_tool",
                  static_run(knowledge, resumes, processed, files, outcome))

process_single_resume_tool(file_path, o) ==
    finish_run("process_single_resume_tool",
               single_run(knowledge, resumes, processed, file_path, o))

process_single_resume_sync(file_path, o) ==
    finish_run("process_single_resume_sync",
               single_run(knowledge, resumes, processed, file_path, o))

query_knowledge_base_tool ==
    /\ tool_result' =
          [tool |-> "query_knowledge_base_tool", kind |-> "text",
           text |-> get_all_summaries_result(knowledge), log |-> <<>>]
    /\ UNCHANGED <<sessions_table, session, knowledge, resumes, saved, hist,
                   processed, repos, chat>>

(***************************************************************************)
(* tools/github_tool.py                                                    *)
(***************************************************************************)
MaxRepos == 6        \* longest repository list the API is made to return

\* JSON null, and what dict.get gives for a missing key: falsy like ""
Null == ""

\* Repositories as the API lists them.  Timestamps are numbered in their
\* order (ISO 8601 strings of one format compare as the times do); 0 stands
\* for null and for the "" default, which are falsy and come first.
RepoKinds ==
    { [name |-> "agent", stargazers_count |-> 3, language |-> "Python",
       pushed_at |-> 5, updated_at |-> 5],
      [name |-> "dotfiles", stargazers_count |-> 1, language |-> "Go",
       pushed_at |-> 0, updated_at |-> 7],
      [name |-> "notes", language |-> Null, pushed_at |-> 2, updated_at |-> 9],
      [name |-> "fork", stargazers_count |-> 3, language |-> "Python",
       pushed_at |-> 0] }

RepoLists == UNION { [1..n -> RepoKinds] : n \in 0..MaxRepos }

\* r.get(key, default)
GetOr(r, key, default) == IF key \in DOMAIN r THEN r[key] ELSE default

stargazers_count(r) == GetOr(r, "stargazers_count", 0)

\* r.get("pushed_at") or r.get("updated_at", "")
pushed_or_updated(r) ==
    IF GetOr(r, "pushed_at", 0) # 0 THEN r.pushed_at
                                     ELSE GetOr(r, "updated_at", 0)

\* sorted(..., reverse=True) on <<key, item>> pairs: a stable sort, items
\* with equal keys keep their order
RECURSIVE InsertDesc(_, _)
InsertDesc(sorted, p) ==
    IF sorted = <<>> THEN <<p>>
    ELSE IF Head(sorted)[1] >= p[1]
        THEN <<Head(sorted)>> \o InsertDesc(Tail(sorted), p)
        ELSE <<p>> \o sorted

RECURSIVE SortDesc(_)
SortDesc(pairs) ==
    IF pairs = <<>> THEN <<>>
    ELSE InsertDesc(SortDesc(SubSeq(pairs, 1, Len(pairs) - 1)),
                    pairs[Len(pairs)])

Items(pairs) == [i \in DOMAIN pairs |-> pairs[i][2]]

\* seq[:n]
Take(seq, n) == SubSeq(seq, 1, IF Len(seq) < n THEN Len(seq) ELSE n)

RECURSIVE total_stars(_)
total_stars(rs) ==
    IF rs = <<>> THEN 0
    ELSE stargazers_count(Head(rs)) + total_stars(Tail(rs))

\* faulty variant: the first five repositories as listed
top_repos_as_listed(rs) == Take(rs, 5)

top_repos(rs) ==
    Take(Items(SortDesc([i \in DOMAIN rs |->
                            <<stargazers_count(rs[i]), rs[i]>>])), 5)

\* languages[lang] = languages.get(lang, 0) + 1 on a dict kept as the
\* sequence of its <<language, count>> items in insertion order
count_language(languages, lang) ==
    IF \E i \in DOMAIN languages : languages[i][1] = lang
        THEN [i \in DOMAIN languages |->
                 IF languages[i][1] = lang
                     THEN <<lang, languages[i][2] + 1>>
                     ELSE languages[i]]
        ELSE Append(languages, <<lang, 1>>)

RECURSIVE languages_loop(_, _)
languages_loop(rs, languages) ==
    IF rs = <<>> THEN languages
    ELSE languages_loop(Tail(rs),
             IF GetOr(Head(rs), "language", Null) # Null
                 THEN count_language(languages, Head(rs).language)
                 ELSE languages)

recent(rs) ==
    Take(Items(SortDesc([i \in DOMAIN rs |->
                            <<pushed_or_updated(rs[i]), rs[i]>>])), 3)

\* the profile the API returns for the user
User == [login |-> "octocat", name |-> "Octo Cat", bio |-> Null]

\* the dict fetch() returns
fetch(user_status, repos_status, rs) ==
    IF user_status # 200
        THEN [kind |-> "error",
              error |-> <<"Failed to fetch user: ", ToString(user_status)>>]
    ELSE IF repos_status # 200
        THEN [kind |-> "error",
              error |-> <<"Failed to fetch repos: ", ToString(repos_status)>>]
    ELSE [kind |-> "result",
          user |-> User,
          repos |-> rs,
          total_stars |-> total_stars(rs),
          top_repos |-> top_repos(rs),
          languages |-> languages_loop(rs, <<>>),
          recent |-> recent(rs)]

\* the lines of the summary, each line the pieces it is formatted from
summary_lines(result) ==
    << <<"GitHub profile for ", result.user.login, " (", result.user.name, ")">> >>
    \o (IF result.user.bio # Null THEN << <<"Bio: ", result.user.bio>> >>
                                  ELSE <<>>)
    \o << <<"Total stars across fetched repos: ",
            ToString(result.total_stars)>>,
          <<"Top repos by stars:">> >>
    \o [i \in DOMAIN result.top_repos |->
           <<"- ", result.top_repos[i].name, ": ",
             ToString(stargazers_count(result.top_repos[i])), " stars | ",
             IF GetOr(result.top_repos[i], "language", Null) # Null
                 THEN result.top_repos[i].language ELSE "unknown">>]
    \o (IF result.languages # <<>>
            THEN << <<"Languages used (by repo count): ">> \o
                    Take([i \in DOMAIN result.languages |->
                             result.languages[Items(SortDesc(
                                 [j \in DOMAIN result.languages |->
                                     <<result.languages[j][2], j>>]))[i]][1]],
                         8) >>
            ELSE <<>>)
    \o << <<"Recently updated repos:">> >>
    \o [i \in DOMAIN result.recent |->
           <<"- ", result.recent[i].name, ": pushed_at ",
             ToString(pushed_or_updated(result.recent[i]))>>]
    \o << <<"\n(End of GitHub summary)">> >>

\* github_profile_tool: username set or not, requests.get raising or not,
\* and the status codes of the two responses
github_profile_tool(has_username, get_raises, user_status, repos_status) ==
    /\ tool_result' =
          IF ~has_username
              THEN [tool |-> "github_profile_tool", kind |-> "text",
                    text |-> <<"Error: GITHUB_USERNAME not set.">>,
                    log |-> <<>>]
          ELSE IF get_raises
              THEN Raised("github_profile_tool")
          ELSE LET result == fetch(user_status, repos_status, repos)
               IN  IF result.kind = "error"
                       THEN [tool |-> "github_profile_tool", kind |-> "text",
                             text |-> result.error, log |-> <<>>]
                       ELSE [tool |-> "github_profile_tool", kind |-> "text",
                             text |-> summary_lines(result), log |-> <<>>,
                             result |-> result]
    /\ UNCHANGED <<sessions_table, session, knowledge, resumes, saved, hist,
                   processed, repos, chat>>

GithubProfileTool ==
    \E has_username, get_raises \in BOOLEAN,
       user_status \in {200, 404}, repos_status \in {200, 403} :
        github_profile_tool(has_username, get_raises, user_status, repos_status)

(***************************************************************************)
(* Chat requests: flask/app.py chat, async_worker, event_stream; main.py   *)
(***************************************************************************)
Requests == {"q1", "q2"}

\* a request that has not arrived yet
IdleRequest ==
    [pc |-> "idle", layer |-> "http", key |-> None, existing |-> FALSE,
     created |-> FALSE, had_record |-> FALSE, next |-> 1, cur |-> None,
     queue |-> <<>>, put |-> <<>>, streamed |-> <<>>, stream_done |-> FALSE,
     appended |-> <<>>]

\* the (app, user, session_id) of the requests: two users asking for the
\* session id "s1", and a request whose session_id is empty
ChatKeys ==
    { Key("document_app", "u1", "s1"), Key("document_app", "u2", "s1"),
      Key("document_app", "u1", NoSessionId) }

AgentName == "document_agent"

\* queue.put(None), the end of the stream
Sentinel == [type |-> "sentinel", text |-> ""]

AgentMessage(text) == [type |-> "agent_message", text |-> text]

ErrorItem(text) == [type |-> "error", text |-> text]

\* the events the agent runtime produces for a request: the user's message
\* and the agent's answer, each with content that has parts
TurnEvents(r) ==
    << Ev(r \o "-user", "user",
          ModelContent({<<"parts", "hi">>, <<"role", "user">>}), 1),
       Ev(r \o "-agent", AgentName,
          ModelContent({<<"parts", "hello!">>, <<"role", "model">>}), 2) >>

\* extract_text_from_event: "" for no content, the text attribute when
\* there is one, else the joined texts of the parts
extract_text_from_event(event) ==
    CASE event.content.kind = "none"      -> ""
      [] event.content.kind = "text_attr" -> event.content.text
      [] event.content.kind = "model"     ->
            IF \E kv \in event.content.dump : kv[1] = "parts"
                THEN (CHOOSE kv \in event.content.dump : kv[1] = "parts")[2]
                ELSE ""
      [] OTHER                            -> ""

\* the Session object the runtime works on for a request
RunnerSession(r) ==
    Session(chat[r].key.id, chat[r].key.app_name, chat[r].key.user_id,
            EmptyDict, <<>>)

\* the update of append_event, made with the record read before
append_event_write(table, s, current_record, event) ==
    IF current_record # None
        THEN Update(table,
                    [events |-> Append(current_record.events,
                                       event_to_dict(event)),
                     state  |-> s.state],
                    LAMBDA d : MatchId(s.id, d))
        ELSE table

\* the request is through: the runtime is finished and, over HTTP, the
\* stream has ended
Complete(r) ==
    chat[r].pc = "finished" /\ (chat[r].layer = "cli" \/ chat[r].stream_done)

Busy(r) == chat[r].pc # "idle" /\ ~Complete(r)

\* items put on the queue of an HTTP request (the CLI loop has no queue)
PutItems(r, items) ==
    IF chat[r].layer = "http"
        THEN [chat[r] EXCEPT !.queue = @ \o items, !.put = @ \o items]
        ELSE chat[r]

\* chat / main: existing_session = get_session(...)
chat_get_session(r, layer, k) ==
    /\ chat[r].pc = "idle"
    /\ chat' = [chat EXCEPT ![r] =
                  [@ EXCEPT !.pc = "got", !.layer = layer, !.key = k,
                            !.existing =
                                (get_session_result(sessions_table, k) # None)]]
    /\ UNCHANGED <<sessions_table, session, knowledge, resumes, saved, hist,
                   processed, tool_result, repos>>

\* chat / main: if not existing_session: create_session(...)
chat_create_session(r) ==
    /\ chat[r].pc = "got"
    /\ IF ~chat[r].existing
          THEN \E sid \in (IF chat[r].key.id = NoSessionId
                              THEN FreshUuids ELSE {chat[r].key.id}) :
                  /\ sessions_table' =
                        create_session_table(sessions_table,
                                             chat[r].key.app_name,
                                             chat[r].key.user_id, sid, None)
                  /\ hist' = hist_create(Key(chat[r].key.app_name,
                                             chat[r].key.user_id, sid), None)
          ELSE UNCHANGED <<sessions_table, hist>>
    /\ chat' = [chat EXCEPT ![r] =
                  [@ EXCEPT !.pc = "ready", !.created = ~chat[r].existing]]
    /\ UNCHANGED <<session, knowledge, resumes, saved,
                   processed, tool_result, repos>>

\* chat: thread.start() on async_worker; main: runner.run_async(...)
start_runner(r) ==
    /\ chat[r].pc = "ready"
    /\ chat' = [chat EXCEPT ![r] =
                  [@ EXCEPT !.pc = "running",
                            !.had_record =
                                (get_session_result(sessions_table,
                                                    chat[r].key) # None)]]
    /\ UNCHANGED <<sessions_table, session, knowledge, resumes, saved, hist,
                   processed, tool_result, repos>>

\* append_event called by the runtime, first half: the stored record is read
\* (the runtime produces events only for a session it found in the store:
\* "Runner expects an existing session")
runner_read(r) ==
    /\ chat[r].pc = "running"
    /\ chat[r].had_record
    /\ chat[r].next <= Len(TurnEvents(r))
    /\ chat' = [chat EXCEPT ![r] =
                  [@ EXCEPT !.pc = "read",
                            !.cur = Get(sessions_table,
                                        LAMBDA d : MatchId(chat[r].key.id, d))]]
    /\ UNCHANGED <<sessions_table, session, knowledge, resumes, saved, hist,
                   processed, tool_result, repos>>

\* append_event, second half: the record is updated; then the event reaches
\* the loop of run_and_stream (of main), which queues the agent's messages
runner_update(r) ==
    /\ chat[r].pc = "read"
    /\ LET event == TurnEvents(r)[chat[r].next]
       IN  /\ sessions_table' =
                 append_event_write(sessions_table, RunnerSession(r),
                                    chat[r].cur, event)
           /\ hist' = hist_append(RunnerSession(r), event)
           /\ chat' = [chat EXCEPT ![r] =
                  [PutItems(r, IF event.author = AgentName
                                   THEN <<AgentMessage(
                                            extract_text_from_event(event))>>
                                   ELSE <<>>)
                      EXCEPT !.pc = "running", !.cur = None,
                             !.next = @ + 1,
                             !.appended = Append(@, event)]]
    /\ UNCHANGED <<session, knowledge, resumes, saved,
                   processed, tool_result, repos>>

\* faulty variant: the end sentinel is put only when the runtime finishes
runner_raise_no_finally(r) ==
    /\ chat[r].pc = "running"
    /\ chat' = [chat EXCEPT ![r] =
                  [PutItems(r, <<ErrorItem("Worker exception")>>)
                      EXCEPT !.pc = "finished"]]
    /\ UNCHANGED <<sessions_table, session, knowledge, resumes, saved, hist,
                   processed, tool_result, repos>>

\* the runtime raises: except puts an error item, finally puts the sentinel
runner_raise(r) ==
    /\ chat[r].pc = "running"
    /\ chat' = [chat EXCEPT ![r] =
                  [PutItems(r, <<ErrorItem("Worker exception"), Sentinel>>)
                      EXCEPT !.pc = "finished"]]
    /\ UNCHANGED <<sessions_table, session, knowledge, resumes, saved, hist,
                   processed, tool_result, repos>>

\* the runtime has no more events: finally puts the sentinel
runner_finish(r) ==
    /\ chat[r].pc = "running"
    /\ chat[r].had_record
    /\ chat[r].next > Len(TurnEvents(r))
    /\ chat' = [chat EXCEPT ![r] =
                  [PutItems(r, <<Sentinel>>) EXCEPT !.pc = "finished"]]
    /\ UNCHANGED <<sessions_table, session, knowledge, resumes, saved, hist,
                   processed, tool_result, repos>>

\* one turn of the loop of event_stream: q.get(), break on the sentinel,
\* else yield the item
event_stream(r) ==
    /\ chat[r].layer = "http"
    /\ ~chat[r].stream_done
    /\ chat[r].queue # <<>>
    /\ chat' = [chat EXCEPT ![r] =
                  IF Head(chat[r].queue) = Sentinel
                      THEN [@ EXCEPT !.queue = Tail(@), !.stream_done = TRUE]
                      ELSE [@ EXCEPT !.queue = Tail(@),
                                     !.streamed = Append(@, Head(chat[r].queue))]]
    /\ UNCHANGED <<sessions_table, session, knowledge, resumes, saved, hist,
                   processed, tool_result, repos>>

\* the steps of the runtime and its worker for a request
RunnerStep(r) ==
    \/ start_runner(r)
    \/ runner_read(r)
    \/ runner_update(r)
    \/ runner_raise(r)
    \/ runner_finish(r)

Init ==
    /\ sessions_table = <<>>
    /\ session = None
    /\ knowledge = <<>>
    /\ resumes = {}
    /\ saved = [f \in FileNames |-> None]
    /\ hist = [i \in SessionIds |-> NoHist]
    /\ processed = {}
    /\ tool_result = None
    /\ repos = <<>>
    /\ chat = [r \in Requests |-> IdleRequest]

NextSessions ==
    \/ CreateSession
    \/ CreateSessionNoId
    \/ GetSession
    \/ AppendEvent
    \/ DeleteSession
    \/ ListSessions
    \/ SetState
    \/ ClearChat

SpecSessions == Init /\ [][NextSessions]_vars

NextKnowledge ==
    \/ SaveSummary
    \/ GetAllSummaries
    \/ UploadResume
    \/ ClearKnowledge

SpecKnowledge == Init /\ [][NextKnowledge]_vars

(***************************************************************************)
(* Round trip of event content of every kind through one session           *)
(***************************************************************************)
RoundTripKey == Key("document_app", "u1", "s1")

RoundTripEvents ==
    { Ev("r1", "user", Dict({<<"text", "hello">>}), 1),
      Ev("r2", "user", IntContent(42), 2),
      Ev("r3", "document_agent", TextContent("hello"), 3),
      Ev("r4", "document_agent", ModelContent({<<"role", "model">>}), 4),
      Ev("r5", "document_agent", NoneContent, 5) }

NextRoundTrip ==
    \/ \E keep \in BOOLEAN :
          create_session(RoundTripKey.app_name, RoundTripKey.user_id,
                         RoundTripKey.id, None, keep)
    \/ get_session(RoundTripKey.app_name, RoundTripKey.user_id, RoundTripKey.id)
    \/ \E e \in RoundTripEvents \cup ReadBackEvents : append_event(e)

SpecRoundTrip == Init /\ [][NextRoundTrip]_vars

(***************************************************************************)
(* Both stores together, with the two maintenance endpoints                *)
(***************************************************************************)
ClearKeys ==
    { Key("document_app", "u1", "s1"), Key("document_app", "u1", "uuid-1") }

ClearFiles == {"resume.pdf", "photo.png"}

NextClear ==
    \/ \E k \in ClearKeys :
          create_session(k.app_name, k.user_id, k.id, None, TRUE)
    \/ \E k \in ClearKeys : get_session(k.app_name, k.user_id, k.id)
    \/ \E e \in RuntimeEvents : append_event(e)
    \/ \E f \in ClearFiles : save_summary(f, "Senior engineer, 5 years", "Resume (PDF)")
    \/ \E f \in ClearFiles : upload_resume(f)
    \/ clear_chat
    \/ \E locked \in SUBSET ClearFiles : clear_knowledge(locked)

SpecClear == Init /\ [][NextClear]_vars

(***************************************************************************)
(* create_session against stored, colliding and generated session ids      *)
(***************************************************************************)
NextCreate ==
    \/ CreateSession
    \/ CreateSessionNoId
    \/ append_event(Ev("e1", "user", Dict({<<"text", "hi">>}), 1))
    \/ DeleteSession

SpecCreate == Init /\ [][NextCreate]_vars

(***************************************************************************)
(* Lookup, removal and listing, with callers that keep and change the      *)
(* Session objects they were given                                         *)
(***************************************************************************)
NextLookup ==
    \/ \E k \in ChosenKeys, st \in {None} \cup StateVals :
          create_session(k.app_name, k.user_id, k.id, st, TRUE)
    \/ create_session("document_app", "u1", NoSessionId, None, TRUE)
    \/ GetSession
    \/ \E e \in RuntimeEvents : append_event(e)
    \/ DeleteSession
    \/ ListSessions
    \/ SetState
    \/ set_events(LocalEvent)

SpecLookup == Init /\ [][NextLookup]_vars

(***************************************************************************)
(* The tools the agent runtime calls, next to uploads and clear_knowledge   *)
(***************************************************************************)
NextTools ==
    \/ \E f \in ToolFiles : upload_resume(f)
    \/ \E files \in Listings(resumes), outcome \in [SupportedFiles -> ToolOutcomes] :
          process_static_resumes_tool(files, outcome)
    \/ \E f \in ToolFiles, o \in ToolOutcomes : process_single_resume_tool(f, o)
    \/ \E f \in ToolFiles, o \in ToolOutcomes : process_single_resume_sync(f, o)
    \/ query_knowledge_base_tool
    \/ GithubProfileTool
    \/ \E locked \in SUBSET ToolFiles : clear_knowledge(locked)

SpecTools == Init /\ [][NextTools]_vars

(***************************************************************************)
(* The profile tool on every repository list up to MaxRepos                *)
(***************************************************************************)
InitGithub ==
    /\ sessions_table = <<>>
    /\ session = None
    /\ knowledge = <<>>
    /\ resumes = {}
    /\ saved = [f \in FileNames |-> None]
    /\ hist = [i \in SessionIds |-> NoHist]
    /\ processed = {}
    /\ tool_result = None
    /\ repos \in RepoLists
    /\ chat = [r \in Requests |-> IdleRequest]

NextGithub ==
    \/ \E user_status \in {200, 404} :
          github_profile_tool(TRUE, FALSE, user_status, 200)
    \/ save_summary("resume.pdf", "Senior engineer, 5 years", "Resume (PDF)")

SpecGithub == InitGithub /\ [][NextGithub]_vars

(***************************************************************************)
(* Chat requests handled one at a time, over HTTP and in the CLI loop      *)
(***************************************************************************)
NextChat ==
    \/ \E r \in Requests, layer \in {"http", "cli"}, k \in ChatKeys :
          /\ \A other \in Requests \ {r} : ~Busy(other)
          \* the CLI loop has one fixed user and session id
          /\ layer = "cli" => k = Key("document_app", "u1", "s1")
          /\ k.id = NoSessionId => FreshUuids # {}
          /\ chat_get_session(r, layer, k)
    \/ \E r \in Requests : chat_create_session(r)
    \/ \E r \in Requests : RunnerStep(r)
    \/ \E r \in Requests : event_stream(r)

SpecChat == Init /\ [][NextChat]_vars

(***************************************************************************)
(* HTTP chat requests for one session handled by concurrent threads        *)
(***************************************************************************)
NextChatThreads ==
    \/ \E r \in Requests :
          chat_get_session(r, "http", Key("document_app", "u1", "s1"))
    \/ \E r \in Requests : chat_create_session(r)
    \/ \E r \in Requests : RunnerStep(r)
    \/ \E r \in Requests : event_stream(r)

SpecChatThreads == Init /\ [][NextChatThreads]_vars

\* every thread that can take a step is scheduled again, and the runtime
\* ends each run by finishing or raising
SpecChatLive ==
    /\ Init
    /\ [][NextChatThreads]_vars
    /\ \A r \in Requests :
          /\ WF_vars(chat_create_session(r))
          /\ WF_vars(RunnerStep(r))
          /\ WF_vars(event_stream(r))

(***************************************************************************)
(* Properties                                                              *)
(***************************************************************************)
\* what an event passed to append_event looks like once persisted and read
Reloaded(e) == dict_to_event(event_to_dict(e))

StateOrEmpty(st) == IF st = None THEN EmptyDict ELSE st

K1 == Key("document_app", "u1", "s1")

\* C1: after create_session(app, user, id) followed only by append_event
\* calls on that session (no delete, clear or other create of that id in
\* between), get_session(app, user, id) returns a session whose events are
\* exactly the appended events, in append order, and whose state is the
\* state passed with the last append (the created state when none).
C1_GetReturnsAppended ==
    \A k \in SessionKeys :
        (hist[k.id].owner = k /\ hist[k.id].own)
            => get_session_result(sessions_table, k) =
                 Session(k.id, k.app_name, k.user_id,
                         StateOrEmpty(hist[k.id].state),
                         MapSeq(Reloaded, hist[k.id].events))

\* create, append(user, 'hi'), append(assistant, 'hello!'), get: the caller
\* holds a session with exactly these 2 events in that order
C1_Witness ==
    /\ hist["s1"].owner = K1
    /\ hist["s1"].own
    /\ session = get_session_result(sessions_table, K1)
    /\ Len(session.events) = 2
    /\ session.events[1].author = "user"
    /\ session.events[1].content = Dict({<<"text", "hi">>})
    /\ session.events[2].author = "document_agent"
    /\ session.events[2].content = Dict({<<"text", "hello!">>})

IsPrefix(a, b) ==
    /\ Len(a) <= Len(b)
    /\ \A i \in DOMAIN a : a[i] = b[i]

RecordsOf(table, sid) == Search(table, LAMBDA d : MatchId(sid, d))

\* C2 (as claimed): for every session whose record is not removed by the
\* step, the persisted event list is only ever extended by one element at
\* the end; no step drops, replaces or reorders an earlier event.
C2_NeverDropped ==
    [][\A k \in SessionKeys :
          LET before == Search(sessions_table, LAMBDA d : MatchTriple(k, d))
              after  == Search(sessions_table', LAMBDA d : MatchTriple(k, d))
          IN  (before # <<>> /\ after # <<>>)
                  => /\ IsPrefix(before[1].events, after[1].events)
                     /\ Len(after[1].events) <= Len(before[1].events) + 1
      ]_vars

\* C2 (amended): every persisted record holds exactly the events passed to
\* append_event under its session id since the last create_session with that
\* id, in call order (so its length is the number of those calls); a
\* create_session with an existing id starts the list again from empty.
C2_AppendedSinceCreate ==
    \A i \in DOMAIN sessions_table :
        LET d == sessions_table[i]
        IN  /\ hist[d.id].owner = KeyOf(d)
            /\ d.events = MapSeq(event_to_dict, hist[d.id].events)
            /\ Len(d.events) = Len(hist[d.id].events)

C2_Witness ==
    \E i \in DOMAIN sessions_table :
        /\ Len(sessions_table[i].events) = 2
        /\ sessions_table[i].events[1].id # sessions_table[i].events[2].id
        /\ Len(sessions_table) = 2

\* the triple an operation of this step is applied to
AppliedTo(k) ==
    \/ \E st \in {None} \cup StateVals, keep \in BOOLEAN :
          create_session(k.app_name, k.user_id, k.id, st, keep)
    \/ delete_session(k.app_name, k.user_id, k.id)
    \/ /\ session # None
       /\ KeyOf(session) = k
       /\ \E e \in EventInputs : append_event(e)

\* C3: create_session, append_event and delete_session applied to one triple
\* leave the persisted record (owner, state, events) of every session with a
\* different triple unchanged, also when it has the same session id.
C3_OtherTriplesUnchanged ==
    [][\A k \in SessionKeys :
          AppliedTo(k) =>
              \A i \in DOMAIN sessions_table :
                  KeyOf(sessions_table[i]) # k
                      => \E j \in DOMAIN sessions_table' :
                            sessions_table'[j] = sessions_table[i]
      ]_vars

\* what create_session(app_name, user_id, sid, st) leaves behind
CreatePost(app_name, user_id, sid, st, keep) ==
    /\ RecordsOf(sessions_table', sid) =
          << [id |-> sid, app_name |-> app_name, user_id |-> user_id,
              state |-> StateOrEmpty(st), events |-> <<>>] >>
    /\ keep => session' = Session(sid, app_name, user_id, StateOrEmpty(st), <<>>)

\* C10: create_session writes a record with the supplied (else empty) state
\* and no events and returns a session with that id; without a session_id it
\* generates one and stores the record under the returned id; when the id is
\* already stored the call succeeds and the store then holds exactly one
\* record for the id, with the new owner, the new state and no events.
C10_CreateOverwrites ==
    [][/\ \A k \in SessionKeys, st \in {None} \cup StateVals, keep \in BOOLEAN :
            create_session(k.app_name, k.user_id, k.id, st, keep)
                => CreatePost(k.app_name, k.user_id, k.id, st, keep)
       /\ \A st \in {None} \cup StateVals, keep \in BOOLEAN :
            create_session("document_app", "u1", NoSessionId, st, keep)
                => \E u \in UuidIds :
                      /\ RecordsOf(sessions_table, u) = <<>>
                      /\ CreatePost("document_app", "u1", u, st, keep)
      ]_vars

\* a create for (other_app, u1, s1) hit the stored id s1 of a session that
\* had two events; a generated session is stored too
C10_Witness ==
    /\ session # None
    /\ KeyOf(session) = K1
    /\ Len(session.events) = 2
    /\ RecordsOf(sessions_table, "s1") =
          << [id |-> "s1", app_name |-> "other_app", user_id |-> "u1",
              state |-> Dict({<<"step", "1">>}), events |-> <<>>] >>
    /\ RecordsOf(sessions_table, "uuid-1") # <<>>

\* C9: an event with content {text: "hello"} is read back with content
\* exposing text = "hello"; one with the non-mapping content 42 is read back
\* with content {text: "42"}; an event that was itself read back is read
\* back unchanged, and persisting and reloading any read-back event gives
\* the same event again.
C9_RoundTrip ==
    LET h   == hist[RoundTripKey.id]
        got == get_session_result(sessions_table, RoundTripKey)
    IN  h.owner = RoundTripKey =>
          /\ got # None
          /\ Len(got.events) = Len(h.events)
          /\ \A i \in DOMAIN h.events :
                LET sent == h.events[i]
                    back == got.events[i]
                IN  /\ sent.content = Dict({<<"text", "hello">>})
                          => <<"text", "hello">> \in back.content.map
                    /\ sent.content = IntContent(42)
                          => back.content = Dict({<<"text", "42">>})
                    /\ sent.content.kind = "dict" => back = sent
                    /\ back.content.kind = "dict"
                    /\ Reloaded(back) = back

\* 42 was appended, read back as {text: "42"}, and the read-back event was
\* appended and read back again
C9_Witness ==
    LET h == hist[RoundTripKey.id]
    IN  /\ h.owner = RoundTripKey
        /\ Len(h.events) = 2
        /\ h.events[1].content = IntContent(42)
        /\ h.events[2].content = Dict({<<"text", "42">>})
        /\ session = get_session_result(sessions_table, RoundTripKey)
        /\ session.events[1] = session.events[2]

SavedDoc(f) ==
    [file_name |-> f, summary |-> saved[f].summary, type |-> saved[f].type]

\* C4: has_summary(name) is true right after save_summary(name, ...) and
\* stays true through further save_summary calls, for this or other names,
\* until the knowledge table is truncated.
C4_HasSummaryAfterSave ==
    \A f \in FileNames : saved[f] # None => has_summary(f)

\* a name saved twice, and two other names saved after it
C4_Witness ==
    /\ saved["resume.pdf"] # None
    /\ saved["resume.pdf"].again
    /\ Len(knowledge) = 3
    /\ knowledge[1].file_name = "resume.pdf"
    /\ has_summary("resume.pdf")

\* C5: the knowledge table never holds two entries with the same file name.
C5_OneEntryPerFile ==
    \A i, j \in DOMAIN knowledge :
        knowledge[i].file_name = knowledge[j].file_name => i = j

\* two names were each saved more than once
C5_Witness ==
    /\ saved["resume.pdf"] # None /\ saved["resume.pdf"].again
    /\ saved["photo.png"] # None /\ saved["photo.png"].again
    /\ Len(knowledge) = 2

\* C6: get_summary(name) is the entry of the most recent save_summary(name,
\* ...) since the last truncate, None when there was none; so a save for
\* one name leaves the entries of the other names as they were.
C6_LastWriteWins ==
    \A f \in FileNames :
        get_summary(f) = IF saved[f] = None THEN None ELSE SavedDoc(f)

\* a name saved again with another summary and type, next to a name that
\* was saved once and one that was never saved
C6_Witness ==
    /\ saved["resume.pdf"] # None /\ saved["resume.pdf"].again
    /\ get_summary("resume.pdf") =
          [file_name |-> "resume.pdf", summary |-> "A portrait", type |-> "Image"]
    /\ knowledge[1].file_name = "resume.pdf"
    /\ saved["photo.png"] # None /\ ~saved["photo.png"].again
    /\ saved["cv.pdf"] = None /\ get_summary("cv.pdf") = None

Count(text, piece) == Cardinality({ i \in DOMAIN text : text[i] = piece })

\* the text holds a delimited block for doc: start line with the file name,
\* type line, summary line, end line with the file name
HasBlock(text, doc) ==
    \E p \in DOMAIN text :
        /\ p + 11 \in DOMAIN text
        /\ text[p] = "--- START OF DOC: " /\ text[p + 1] = doc.file_name
        /\ text[p + 3] = "TYPE: " /\ text[p + 4] = doc.type
        /\ text[p + 6] = "SUMMARY: " /\ text[p + 7] = doc.summary
        /\ text[p + 9] = "--- END OF DOC: " /\ text[p + 10] = doc.file_name

C7_Rendering ==
    LET text == get_all_summaries_result(knowledge)
    IN  /\ (text = NoKnowledgeMessage) <=> (knowledge = <<>>)
        /\ knowledge # <<>> =>
              /\ \A i \in DOMAIN knowledge : HasBlock(text, knowledge[i])
              /\ Count(text, "--- START OF DOC: ") = Len(knowledge)
              /\ Count(text, "--- END OF DOC: ") = Len(knowledge)

\* C7: get_all_summaries returns the fixed 'no knowledge' message exactly
\* when the store is empty; otherwise the text holds one delimited block per
\* entry with its file name, type and summary verbatim; the call leaves the
\* store as it was.
C7_GetAllSummaries ==
    /\ []C7_Rendering
    /\ [][get_all_summaries => knowledge' = knowledge]_vars

C7_Witness ==
    /\ Len(knowledge) = 2
    /\ knowledge[1] = [file_name |-> "resume.pdf",
                       summary |-> "Senior engineer, 5 years",
                       type |-> "Resume (PDF)"]
    /\ HasBlock(get_all_summaries_result(knowledge), knowledge[1])
    /\ HasBlock(get_all_summaries_result(knowledge), knowledge[2])

\* C8: after clear_chat, get_session is None for every triple and
\* list_sessions is empty; after clear_knowledge, has_summary is false and
\* get_summary None for every file name and get_all_summaries gives the
\* empty-store message; each clear leaves the other store as it was.
C8_ClearRemovesAll ==
    [][/\ clear_chat =>
            /\ \A k \in SessionKeys :
                  /\ get_session_result(sessions_table', k) = None
                  /\ list_sessions_result(sessions_table', k.app_name,
                                           k.user_id) = <<>>
            /\ knowledge' = knowledge
       /\ (\E locked \in SUBSET FileNames : clear_knowledge(locked)) =>
            /\ \A f \in FileNames :
                  ~has_summary(f)' /\ get_summary(f)' = None
            /\ get_all_summaries_result(knowledge') = NoKnowledgeMessage
            /\ sessions_table' = sessions_table
      ]_vars

\* the session store was cleared while sessions the caller had read were
\* stored and the knowledge store held two entries, which are still there
C8_Witness ==
    /\ sessions_table = <<>>
    /\ session # None /\ Len(session.events) = 2
    /\ hist["s1"].owner = None /\ hist["uuid-1"].owner = None
    /\ Len(knowledge) = 2

\* no stored record has all three of app_name, user_id and id of k
NoMatch(k) == \A i \in DOMAIN sessions_table : KeyOf(sessions_table[i]) # k

\* C11: get_session(app, user, id) leaves the store as it was and returns
\* None exactly when no record matches all three of app_name, user_id and
\* session id, also when a record with that session id is stored under
\* another app_name or user_id.
C11_GetAbsent ==
    [][\A k \in SessionKeys :
          get_session(k.app_name, k.user_id, k.id) =>
              /\ sessions_table' = sessions_table
              /\ NoMatch(k) <=> (session' = None)
      ]_vars

\* a caller that held a session was given None while the session id s1 was
\* stored under another triple than (document_app, u1, s1)
C11_Witness ==
    /\ session = None
    /\ NoMatch(K1)
    /\ \E i \in DOMAIN sessions_table :
          /\ sessions_table[i].id = "s1"
          /\ Len(sessions_table[i].events) = 2

\* C12: delete_session(app, user, id) leaves no record for the triple, so
\* get_session for the triple then returns None; when no record matches the
\* triple the store is left exactly as it was.
C12_DeleteRemoves ==
    [][\A k \in SessionKeys :
          delete_session(k.app_name, k.user_id, k.id) =>
              /\ get_session_result(sessions_table', k) = None
              /\ NoMatch(k) => sessions_table' = sessions_table
      ]_vars

\* the session (document_app, u1, s1) the caller still holds, with an event
\* in it, was deleted, while the generated session is still stored
C12_Witness ==
    /\ session # None
    /\ KeyOf(session) = K1
    /\ Len(session.events) = 2
    /\ hist["s1"].owner = None
    /\ get_session_result(sessions_table, K1) = None
    /\ Len(sessions_table) = 1

C13_Headers ==
    \A k \in SessionKeys :
        LET r == list_sessions_result(sessions_table, k.app_name, k.user_id)
        IN  /\ \A i \in DOMAIN sessions_table :
                  (/\ sessions_table[i].app_name = k.app_name
                   /\ sessions_table[i].user_id = k.user_id)
                      => Cardinality({ j \in DOMAIN r :
                                         r[j].id = sessions_table[i].id }) = 1
            /\ \A j \in DOMAIN r :
                  /\ r[j].app_name = k.app_name
                  /\ r[j].user_id = k.user_id
                  /\ r[j].events = <<>>
                  /\ \E i \in DOMAIN sessions_table :
                        /\ KeyOf(sessions_table[i]) = KeyOf(r[j])
                        /\ sessions_table[i].state = r[j].state

\* C13: list_sessions(app, user) returns exactly one header per stored
\* session of that app and user and none for others, each with the stored id
\* and state and an empty event list whatever events are stored; the call
\* leaves the store as it was.
C13_ListSessions ==
    /\ []C13_Headers
    /\ [][\A k \in SessionKeys :
             list_sessions(k.app_name, k.user_id)
                 => sessions_table' = sessions_table]_vars

\* two sessions of (document_app, u1) are stored, one of them with two
\* events and a non-empty state; user u2 has none
C13_Witness ==
    /\ Len(list_sessions_result(sessions_table, "document_app", "u1")) = 2
    /\ list_sessions_result(sessions_table, "document_app", "u2") = <<>>
    /\ \E i \in DOMAIN sessions_table :
          /\ Len(sessions_table[i].events) = 2
          /\ sessions_table[i].state = Dict({<<"step", "1">>})

DocumentTools ==
    { "process_static_resumes_tool", "process_single_resume_tool",
      "process_single_resume_sync" }

\* the last operation was a run of a document-processing tool
AfterDocumentTool ==
    tool_result # None /\ tool_result.tool \in DocumentTools

\* files of the last run whose delete or move raised
CleanupFailed(log) ==
    Called(log, "delete_file raised") \cup Called(log, "replace raised")
        \cup Called(log, "makedirs raised")

\* C15: after a run of a document-processing tool, every file for which the
\* model call succeeded and save_summary ran has its knowledge entry stored,
\* whether or not its delete or move raised; and when no upload or model
\* call of the run raised, the tool reports every such file as processed
\* (the static tool counts it, a single-file tool names it).
C15_CleanupNeverAborts ==
    AfterDocumentTool =>
        LET log    == tool_result.log
            stored == Called(log, "save_summary")
        IN  /\ \A f \in stored :
                  /\ has_summary(f)
                  /\ get_summary(f).summary = ResponseText(source_type_of(f))
            /\ (stored # {} /\ Called(log, "upload_file") = stored) =>
                  IF tool_result.tool = "process_static_resumes_tool"
                      THEN tool_result.text =
                             <<"Successfully processed and saved summaries for ",
                               ToString(Cardinality(stored)), " files.">>
                      ELSE \E f \in stored :
                              tool_result.text = <<"Processed: ", f>>

\* one run of the static tool summarized two files; the move of one raised,
\* the delete of the other's uploaded artifact and its makedirs raised
C15_Witness ==
    /\ AfterDocumentTool
    /\ tool_result.tool = "process_static_resumes_tool"
    /\ Called(tool_result.log, "replace raised") = {"resume.pdf"}
    /\ Called(tool_result.log, "delete_file raised") = {"photo.png"}
    /\ Called(tool_result.log, "makedirs raised") = {"photo.png"}
    /\ tool_result.text[2] = "2"
    /\ {"resume.pdf", "photo.png"} \subseteq resumes

\* C16: no call of a registered tool ends with an exception leaving the
\* tool: an upstream failure (upload or model call raising, the profile
\* fetch answering non-200 or raising) ends with the tool returning text.
C16_ToolsReturnText ==
    tool_result # None => tool_result.kind = "text"

\* the last run of the static tool ended without an error
StaticRunSucceeded ==
    /\ tool_result # None
    /\ tool_result.tool = "process_static_resumes_tool"
    /\ tool_result.text[1] # "An error occurred: "

C17_SecondRunSummarizesNothing ==
    StaticRunSucceeded =>
        \A files \in Listings(resumes),
           outcome \in [SupportedFiles -> ToolOutcomes] :
            LET again == static_run(knowledge, resumes, processed,
                                    files, outcome)
            IN  /\ Called(again.log, "generate_content") = {}
                /\ again.count = 0
                /\ again.knowledge = knowledge
                /\ again.resumes = resumes
                /\ again.processed = processed

\* C17: a run of a document-processing tool makes no upload or model call
\* for a file that has a summary, and leaves its knowledge entry and the
\* place of the file as they were; and right after a run of the static tool
\* that ended without an error, another run summarizes no file and leaves
\* the knowledge store as it is.
C17_Idempotent ==
    /\ []C17_SecondRunSummarizesNothing
    /\ [][(tool_result' # None /\ tool_result'.tool \in DocumentTools) =>
             \A f \in ToolFiles :
                 has_summary(f) =>
                     /\ f \notin Called(tool_result'.log, "upload_file")
                     /\ f \notin Called(tool_result'.log, "generate_content")
                     /\ f \notin Called(tool_result'.log, "save_summary")
                     /\ get_summary(f)' = get_summary(f)
                     /\ (f \in resumes') <=> (f \in resumes)
                     /\ (f \in processed') <=> (f \in processed)
         ]_vars

\* the static tool ran over a folder that still holds a summarized file
\* (its move had failed) and reported that there was nothing new
C17_Witness ==
    /\ StaticRunSucceeded
    /\ tool_result.log = <<>>
    /\ tool_result.text =
          <<"No new supported files (PDF/Image) found in the 'resumes' folder.">>
    /\ "resume.pdf" \in resumes
    /\ has_summary("resume.pdf")
    /\ "photo.png" \in processed

\* C18: a file enters the 'processed' folder only in a tool run whose log
\* has the save_summary for that file before its move; a file whose upload
\* or model call raised is not moved by that run, and no unsupported file is
\* ever in the folder.
C18_MovedAfterSummary ==
    /\ [](\A f \in processed : source_type_of(f) # "unknown")
    /\ [][/\ \A f \in processed' \ processed :
                /\ tool_result' # None
                /\ \E i, j \in DOMAIN tool_result'.log :
                      /\ i < j
                      /\ tool_result'.log[i] = <<"save_summary", f>>
                      /\ tool_result'.log[j] = <<"replace", f>>
          /\ (tool_result' # None /\ tool_result'.tool \in DocumentTools) =>
                \A f \in Called(tool_result'.log, "upload_file")
                           \ Called(tool_result'.log, "save_summary") :
                    f \in processed' => f \in processed
         ]_vars

\* one run moved resume.pdf after its summary and then stopped at photo.png,
\* whose model call raised; photo.png and the unsupported notes.txt stay
C18_Witness ==
    /\ AfterDocumentTool
    /\ processed = {"resume.pdf"}
    /\ {"photo.png", "notes.txt"} \subseteq resumes
    /\ Called(tool_result.log, "replace") = {"resume.pdf"}
    /\ Called(tool_result.log, "generate_content") = {"resume.pdf", "photo.png"}
    /\ Called(tool_result.log, "save_summary") = {"resume.pdf"}

\* C19: after clear_knowledge the knowledge store is empty and every file
\* of the 'processed' folder that can be deleted (is not locked) is gone.
C19_ClearDeletesProcessed ==
    [][\A locked \in SUBSET ToolFiles :
          clear_knowledge(locked) =>
              /\ knowledge' = <<>>
              /\ processed' \subseteq locked
      ]_vars

\* number of places of seq that hold x
Occ(seq, x) == Cardinality({ i \in DOMAIN seq : seq[i] = x })

Min(a, b) == IF a < b THEN a ELSE b

\* star count of a repository, 0 when it has none
StarsOf(r) == IF "stargazers_count" \in DOMAIN r THEN r.stargazers_count ELSE 0

\* the sum of the star counts of the first n repositories
RECURSIVE StarsUpTo(_, _)
StarsUpTo(rs, n) ==
    IF n = 0 THEN 0 ELSE StarsUpTo(rs, n - 1) + StarsOf(rs[n])

\* push time of a repository, its update time when it has no push time
TimeOf(r) ==
    IF "pushed_at" \in DOMAIN r /\ r.pushed_at # 0 THEN r.pushed_at
    ELSE IF "updated_at" \in DOMAIN r THEN r.updated_at ELSE 0

\* the languages repositories can have
RepoLanguages ==
    { r.language : r \in { k \in RepoKinds : "language" \in DOMAIN k } } \ {Null}

\* the last operation was a profile fetch that got both responses
AfterGithubResult ==
    /\ tool_result # None
    /\ tool_result.tool = "github_profile_tool"
    /\ "result" \in DOMAIN tool_result

C20_Aggregates ==
    AfterGithubResult =>
        LET res == tool_result.result
            rs  == res.repos
            top == res.top_repos
            rec == res.recent
        IN  /\ res.total_stars = StarsUpTo(rs, Len(rs))
            /\ Len(top) = Min(5, Len(rs))
            /\ \A i, j \in DOMAIN top : i < j => StarsOf(top[i]) >= StarsOf(top[j])
            /\ \A r \in RepoKinds :
                  /\ Occ(top, r) <= Occ(rs, r)
                  /\ Occ(top, r) < Occ(rs, r) =>
                        \A j \in DOMAIN top : StarsOf(top[j]) >= StarsOf(r)
            /\ \A l \in RepoLanguages :
                  LET n == Cardinality({ i \in DOMAIN rs :
                              "language" \in DOMAIN rs[i] /\ rs[i].language = l })
                  IN  Occ(res.languages, <<l, n>>) = (IF n > 0 THEN 1 ELSE 0)
            /\ \A i \in DOMAIN res.languages :
                  res.languages[i][1] \in RepoLanguages
            /\ \A i, j \in DOMAIN res.languages :
                  res.languages[i][1] = res.languages[j][1] => i = j
            /\ Len(rec) = Min(3, Len(rs))
            /\ \A i, j \in DOMAIN rec : i < j => TimeOf(rec[i]) >= TimeOf(rec[j])
            /\ \A r \in RepoKinds :
                  /\ Occ(rec, r) <= Occ(rs, r)
                  /\ Occ(rec, r) < Occ(rs, r) =>
                        \A j \in DOMAIN rec : TimeOf(rec[j]) >= TimeOf(r)

\* C20: for every fetched repository list, total_stars is the sum of the
\* star counts (0 for a repository without one); top_repos is made of at
\* most 5 of the repositories, in non-increasing star order, and no left-out
\* repository has more stars than one in it; languages maps each non-empty
\* language to the number of repositories with it; recent is made of at
\* most 3 of the repositories in non-increasing push/update time order; and
\* a call of the tool changes neither store.
C20_ProfileAggregation ==
    /\ []C20_Aggregates
    /\ [][(tool_result' # None /\ tool_result'.tool = "github_profile_tool")
             => /\ knowledge' = knowledge
                /\ sessions_table' = sessions_table]_vars

\* six repositories were fetched while the knowledge store held an entry:
\* one without a star count is left out of the top five, two languages are
\* counted, and the three most recent come in time order
C20_Witness ==
    /\ AfterGithubResult
    /\ knowledge # <<>>
    /\ Len(tool_result.result.repos) = 6
    /\ Len(tool_result.result.top_repos) = 5
    /\ Occ(tool_result.result.repos, CHOOSE r \in RepoKinds : r.name = "notes") = 1
    /\ \A i \in DOMAIN tool_result.result.top_repos :
          tool_result.result.top_repos[i].name # "notes"
    /\ Len(tool_result.result.languages) = 2
    /\ tool_result.result.recent[1].name = "dotfiles"
    /\ tool_result.result.recent[2].name = "agent"
    /\ tool_result.result.recent[3].name = "notes"

\* C24: append_event on a Session object whose session was deleted, or
\* cleared with the store, after the object was obtained (and whose id was
\* not created again since) adds the event to the object's own event list
\* and leaves the store as it was: no record for the session is written.
C24_AppendAfterRemoval ==
    [][\A e \in EventInputs :
          (append_event(e) /\ hist[session.id].owner = None) =>
              /\ sessions_table' = sessions_table
              /\ session'.events = Append(session.events, e)
              /\ get_session_result(sessions_table', KeyOf(session)) = None
      ]_vars

\* a session was created and given an event, the store was cleared, and
\* another event was appended to the Session object, which now holds two
\* events while the store holds no record
C24_Witness ==
    /\ session # None
    /\ hist[session.id].owner = None
    /\ Len(hist[session.id].events) = 1
    /\ Len(session.events) = 2
    /\ session.events[2] = hist[session.id].events[1]
    /\ session.events[1] # session.events[2]
    /\ sessions_table = <<>>

\* the events stored for the session a request asks for, <<>> when the
\* store has no record for the triple
StoredEvents(table, k) ==
    IF get_session_result(table, k) = None
        THEN <<>>
        ELSE get_session_result(table, k).events

\* C21: with chat requests handled one at a time, in the CLI loop and over
\* HTTP, a request calls create_session only when the store holds no session
\* for its (app, user, session_id); a request that found its session leaves
\* every event persisted for it in place, in order, through all its steps;
\* and the agent runtime runs only for a request whose session record was
\* in the store when the runtime was started.
C21_CreateOnlyIfAbsent ==
    /\ [](\A r \in Requests :
            chat[r].pc \in {"running", "read", "finished"} =>
                chat[r].had_record)
    /\ [][\A r \in Requests :
            /\ (chat[r].pc = "got" /\ chat'[r].pc = "ready") =>
                  IF chat'[r].created
                      THEN get_session_result(sessions_table,
                                              chat[r].key) = None
                      ELSE sessions_table' = sessions_table
            /\ (Busy(r) /\ chat[r].existing) =>
                  /\ get_session_result(sessions_table', chat[r].key) # None
                  /\ IsPrefix(StoredEvents(sessions_table, chat[r].key),
                              StoredEvents(sessions_table', chat[r].key))
       ]_vars

\* C22: when two HTTP chat requests for the same session that does not exist
\* yet are handled by concurrent threads, the get-then-create step of a
\* request erases no event stored for the session: every event the other
\* request's worker appended before that step is still stored after it.
C22_CreateKeepsAppended ==
    [][\A r \in Requests :
          (chat[r].pc = "got" /\ chat'[r].pc = "ready") =>
              IsPrefix(StoredEvents(sessions_table, chat[r].key),
                       StoredEvents(sessions_table', chat[r].key))
      ]_vars

\* the ids of the events stored for the session of a request
StoredIds(k) ==
    { StoredEvents(sessions_table, k)[i].id :
          i \in DOMAIN StoredEvents(sessions_table, k) }

\* C23: when the workers of two chat requests append to the same session
\* concurrently, no event is lost: at every moment (so for every concurrent
\* get_session, and after both workers finished) the stored event list
\* holds every event whose append_event has returned.  Stated for runs in
\* which one request found the session stored, so that no create_session
\* comes after an append.
C23_NoLostEvent ==
    (\E r \in Requests : chat[r].existing) =>
        \A r \in Requests :
            \A i \in DOMAIN chat[r].appended :
                chat[r].appended[i].id \in StoredIds(chat[r].key)

\* what the queue and the stream of an HTTP request look like
QueueShape(r) ==
    \* the sentinel is put at most once, and nothing is put after it
    /\ \A i \in DOMAIN chat[r].put :
          chat[r].put[i] = Sentinel => i = Len(chat[r].put)
    \* a worker that is through has put the sentinel
    /\ chat[r].pc = "finished" =>
          /\ chat[r].put # <<>>
          /\ chat[r].put[Len(chat[r].put)] = Sentinel
    \* the stream yields the items in the order they were put, and has
    \* yielded all of them when it stops
    /\ chat[r].put = chat[r].streamed
                        \o (IF chat[r].stream_done THEN <<Sentinel>> ELSE <<>>)
                        \o chat[r].queue
    /\ chat[r].stream_done => chat[r].queue = <<>>
    \* the stream yields error items and the texts of the agent's events
    /\ \A i \in DOMAIN chat[r].streamed :
          \/ chat[r].streamed[i].type = "error"
          \/ \E j \in DOMAIN chat[r].appended :
                /\ chat[r].appended[j].author = AgentName
                /\ chat[r].streamed[i] =
                      AgentMessage(extract_text_from_event(chat[r].appended[j]))

\* C25: the event stream of every HTTP chat request ends.  The worker puts
\* the end sentinel exactly once and as the last item, whether the runtime
\* finishes or raises; the stream stops after it has yielded every item put
\* before the sentinel, and it yields only the messages of events authored
\* by the agent, and error items.
C25_StreamTerminates ==
    /\ [](\A r \in Requests : chat[r].layer = "http" => QueueShape(r))
    /\ \A r \in Requests : (chat[r].pc # "idle") ~> chat[r].stream_done

\* the runtime of q1 finished and its stream yielded the agent's answer; the
\* runtime of q2 raised after the user's event and its stream yielded the
\* error item; both streams have ended
C25_Witness ==
    /\ chat["q1"].put = <<AgentMessage("hello!"), Sentinel>>
    /\ chat["q1"].streamed = <<AgentMessage("hello!")>>
    /\ chat["q1"].stream_done
    /\ Len(chat["q2"].appended) = 1
    /\ chat["q2"].put = <<ErrorItem("Worker exception"), Sentinel>>
    /\ chat["q2"].streamed = <<ErrorItem("Worker exception")>>
    /\ chat["q2"].stream_done

====
